---- MODULE Spec2Model ----
(***************************************************************************)
(* Climate control engine of the Automated Portable Flower Storage         *)
(* (src/code.ino): threshold mapping, bounded sensor history, the TEC/fan  *)
(* three-way regulator and the duty-cycle water pump controller, executed  *)
(* by the single-threaded Arduino loop().                                  *)
(*                                                                         *)
(* Units.  Temperatures and humidities are kept in tenths (24.5 C = 245),  *)
(* the resolution the DHT driver delivers; thresholds are integer          *)
(* percentages as in the code.  millis() is a 32-bit unsigned counter; it  *)
(* is kept as two 16-bit limbs [hi, lo] so that its modular arithmetic is  *)
(* exact.                                                                  *)
(***************************************************************************)
EXTENDS Integers, Sequences, FiniteSets, TLC

VARIABLES
    pc,                       \* position of loop() (next statement to run)
    now,                      \* millis(), 32-bit unsigned, as limbs
    unixMillis,               \* wall clock behind time(nullptr), in ms
    \* ---- inputs sampled by the program (environment) ----
    potTemp,                  \* analogRead(TEMP_POT_PIN)
    potHum,                   \* analogRead(HUMIDITY_POT_PIN)
    dhtTemperature,           \* dht.readTemperature(), tenths or NaN
    dhtHumidity,              \* dht.readHumidity(), tenths or NaN
    buttonPin,                \* digitalRead(PUSH_BUTTON_PIN)
    clientRequest,            \* request waiting in the web server, or NoRequest
    \* ---- program state ----
    temperatureThreshold,
    humidityThreshold,
    sensorReadings,           \* std::vector<SensorData>
    newData,                  \* storeSensorData's validated sample (locals temp, hum)
    tecState,
    waterPumpState,
    waterPumpCycleStartTime,
    gpio,                     \* level of every output pin
    displayThresholds,
    lastButtonState,
    lastDebounceTime,
    lcd,                      \* what updateLCD() last put on the display
    response,                 \* what the web server last sent
    \* ---- history variables (observation only, never read by the program) ----
    accepted,                 \* every reading ever appended, in order
    ticks,                    \* completed passes of loop()
    firstArming,              \* millis() of the first evaluation that saw a deficit
    previous,                 \* inputs and engine state at the end of the previous pass
    sinceCycleStart           \* true time since waterPumpCycleStartTime was set, ms

vars == <<pc, now, unixMillis, potTemp, potHum, dhtTemperature, dhtHumidity, buttonPin,
          clientRequest, temperatureThreshold, humidityThreshold, sensorReadings, newData,
          tecState, waterPumpState, waterPumpCycleStartTime, gpio, displayThresholds,
          lastButtonState, lastDebounceTime, lcd, response, accepted, ticks, firstArming,
          previous, sinceCycleStart>>

engine == <<temperatureThreshold, humidityThreshold, sensorReadings, tecState,
            waterPumpState, waterPumpCycleStartTime, gpio>>

---------------------------------------------------------------------------
(* Program constants *)

TEMP_POT_PIN == 32
HUMIDITY_POT_PIN == 33
PUSH_BUTTON_PIN == 15
COOLER_IN1_PIN == 26
COOLER_IN2_PIN == 27
FAN_IN1_PIN == 12
FAN_IN2_PIN == 13
WATERPUMP_IN1_PIN == 25
WATERPUMP_IN2_PIN == 4

OutputPins == {COOLER_IN1_PIN, COOLER_IN2_PIN, FAN_IN1_PIN, FAN_IN2_PIN,
               WATERPUMP_IN1_PIN, WATERPUMP_IN2_PIN}

LOW == 0
HIGH == 1

AnalogMax == 4095             \* in_max of map(): 12-bit ADC
PercentMax == 100             \* out_max of map()
HistoryCapacity == 100        \* sensorReadings.size() >= 100
HYSTERESIS == 10              \* 1.0 degree C, in tenths
waterPumpOnDuration == 2000
waterPumpOffDuration == 20000
waterPumpCyclePeriod == waterPumpOnDuration + waterPumpOffDuration
debounceDelay == 50
LoopDelay == 2000             \* delay(2000) closing loop()
SetupDelay == 2000            \* delay(2000) closing setup()
NtpEpoch == 86400             \* setup() waits until time(nullptr) >= 24 * 3600

NaN == -1000000               \* the not-a-number sample of the DHT driver
isnan(x) == x = NaN

NoRequest == "none"
NoData == [valid |-> FALSE, temperature |-> 0, humidity |-> 0]

---------------------------------------------------------------------------
(* 32-bit unsigned arithmetic of millis(), on 16-bit limbs *)

Limb == 65536

U32(n) == [hi |-> (n \div Limb) % Limb, lo |-> n % Limb]

\* x + n modulo 2^32, for a natural n
Add32(x, n) ==
    LET s == x.lo + (n % Limb)
    IN  [hi |-> (x.hi + (n \div Limb) + (s \div Limb)) % Limb, lo |-> s % Limb]

\* x + n without the modulus: the upper limb is not reduced, so the value is the
\* true sum even when it no longer fits 32 bits
AddNat(x, n) ==
    LET s == x.lo + (n % Limb)
    IN  [hi |-> x.hi + (n \div Limb) + (s \div Limb), lo |-> s % Limb]

\* a - b on 32-bit operands compared as signed or clamped quantities: 0 when
\* a < b instead of the wrapped difference
Sub32_Clamped(a, b) ==
    IF a.hi < b.hi \/ (a.hi = b.hi /\ a.lo < b.lo)
    THEN [hi |-> 0, lo |-> 0]
    ELSE LET borrow == IF a.lo < b.lo THEN 1 ELSE 0
         IN  [hi |-> a.hi - b.hi - borrow, lo |-> (a.lo - b.lo + Limb) % Limb]

\* a - b modulo 2^32 (unsigned long subtraction)
Sub32(a, b) ==
    LET borrow == IF a.lo < b.lo THEN 1 ELSE 0
    IN  [hi |-> (a.hi - b.hi - borrow + 2 * Limb) % Limb,
         lo |-> (a.lo - b.lo + Limb) % Limb]

\* x >= c and x < c for an unsigned x and a natural constant c
Ge32(x, c) == x.hi > c \div Limb \/ (x.hi = c \div Limb /\ x.lo >= c % Limb)
Lt32(x, c) == ~Ge32(x, c)

millis == now
time == unixMillis \div 1000

---------------------------------------------------------------------------
(* Pure helpers *)

\* Arduino map(): long arithmetic, truncating division
\* map with the output range reversed
map_Reversed(x, in_min, in_max, out_min, out_max) ==
    out_max - ((x - in_min) * (out_max - out_min)) \div (in_max - in_min)

\* map rounding to the nearest integer instead of truncating
map_Rounded(x, in_min, in_max, out_min, out_max) ==
    ((x - in_min) * (out_max - out_min) + (in_max - in_min) \div 2)
        \div (in_max - in_min) + out_min

map(x, in_min, in_max, out_min, out_max) ==
    ((x - in_min) * (out_max - out_min)) \div (in_max - in_min) + out_min

back(s) == s[Len(s)]

\* EraseIfFull with the capacity test off by one (size() > 100)
EraseIfFull_OffByOne(s) == IF Len(s) > HistoryCapacity THEN Tail(s) ELSE s

\* EraseIfFull evicting the newest entry (pop_back) instead of the oldest
EraseIfFull_Newest(s) ==
    IF Len(s) >= HistoryCapacity THEN SubSeq(s, 1, Len(s) - 1) ELSE s

\* lines 92-94: erase(begin()) once the vector holds 100 entries
EraseIfFull(s) == IF Len(s) >= HistoryCapacity THEN Tail(s) ELSE s

\* IsValidSample with the test reversed: only not-a-number samples pass
IsValidSample_Inverted(temp, hum) == isnan(temp) /\ isnan(hum)

\* IsValidSample accepting a sample as soon as one of the two values is a number
IsValidSample_Either(temp, hum) == ~isnan(temp) \/ ~isnan(hum)

\* line 91
IsValidSample(temp, hum) == ~isnan(temp) /\ ~isnan(hum)

\* TecBranch as a true hysteresis: inside the band the previous state is kept
TecBranch_Sticky(t, T) ==
    IF 2 * t > 20 * T + HYSTERESIS THEN "Cooling"
    ELSE IF 2 * t < 20 * T - HYSTERESIS THEN "Heating"
    ELSE tecState

\* TecBranch with non-strict comparisons: the dead-band edges actuate
TecBranch_EdgesActive(t, T) ==
    IF 2 * t >= 20 * T + HYSTERESIS THEN "Cooling"
    ELSE IF 2 * t <= 20 * T - HYSTERESIS THEN "Heating"
    ELSE "Inactive"

\* lines 148, 158, 168: the three-way branch; t in tenths, T in whole degrees
TecBranch(t, T) ==
    IF 2 * t > 20 * T + HYSTERESIS THEN "Cooling"
    ELSE IF 2 * t < 20 * T - HYSTERESIS THEN "Heating"
    ELSE "Inactive"

\* HumidityDeficit with a non-strict comparison: h = Hu counts as a deficit
HumidityDeficit_Inclusive(h, Hu) == h <= 10 * Hu

\* HumidityDeficit with the comparison reversed
HumidityDeficit_Inverted(h, Hu) == h > 10 * Hu

\* line 181; h in tenths, Hu in whole percent
HumidityDeficit(h, Hu) == h < 10 * Hu

\* CycleStartAfterCheck without the restart of lines 184-186
CycleStartAfterCheck_Never(currentTime, start) == start

\* CycleStartAfterCheck restarting the cycle at every evaluation
CycleStartAfterCheck_Always(currentTime, start) == currentTime

\* CycleStartAfterCheck restarting the cycle only after the period is exceeded
CycleStartAfterCheck_Late(currentTime, start) ==
    IF Ge32(Sub32(currentTime, start), waterPumpCyclePeriod + 1) THEN currentTime ELSE start

\* lines 183-185
CycleStartAfterCheck(currentTime, start) ==
    IF Ge32(Sub32(currentTime, start), waterPumpCyclePeriod) THEN currentTime ELSE start

\* InOnPhase with the On window as long as the Off phase
InOnPhase_Long(currentTime, start) ==
    Lt32(Sub32(currentTime, start), waterPumpOffDuration)

\* InOnPhase with a non-strict comparison
InOnPhase_Inclusive(currentTime, start) ==
    Lt32(Sub32(currentTime, start), waterPumpOnDuration + 1)

\* line 188
InOnPhase(currentTime, start) == Lt32(Sub32(currentTime, start), waterPumpOnDuration)

\* line 521: (millis() - lastDebounceTime) > debounceDelay
DebounceElapsed(currentTime, last) == Ge32(Sub32(currentTime, last), debounceDelay + 1)

\* String(x, 1): the decimal text of a value with one decimal place
OneDecimal(x) ==
    LET a == IF x < 0 THEN 0 - x ELSE x
    IN  [negative |-> x < 0, whole |-> a \div 10, tenth |-> a % 10]

\* JsonReading with the two measurements under each other's key
JsonReading_Swapped(d) ==
    [temperature |-> OneDecimal(d.humidity), humidity |-> OneDecimal(d.temperature),
     timestamp |-> d.timestamp]

\* lines 396-404: one element of the "data" array
JsonReading(d) ==
    [temperature |-> OneDecimal(d.temperature), humidity |-> OneDecimal(d.humidity),
     timestamp |-> d.timestamp]

\* StatusJSON reporting thresholds mapped afresh from the potentiometers
StatusJSON_LiveThresholds ==
    [latestTemperature |-> IF sensorReadings # <<>>
                           THEN <<OneDecimal(back(sensorReadings).temperature)>> ELSE <<>>,
     latestHumidity |-> IF sensorReadings # <<>>
                        THEN <<OneDecimal(back(sensorReadings).humidity)>> ELSE <<>>,
     temperatureThreshold |-> map(potTemp, 0, AnalogMax, 0, PercentMax),
     humidityThreshold |-> map(potHum, 0, AnalogMax, 0, PercentMax),
     lastUpdated |-> time,
     data |-> [i \in 1..Len(sensorReadings) |-> JsonReading(sensorReadings[i])],
     tecState |-> tecState,
     waterPumpState |-> waterPumpState]

\* lines 391-419: the JSON object built by handleSensorDataJSON; null is <<>>
StatusJSON ==
    [latestTemperature |-> IF sensorReadings # <<>>
                           THEN <<OneDecimal(back(sensorReadings).temperature)>> ELSE <<>>,
     latestHumidity |-> IF sensorReadings # <<>>
                        THEN <<OneDecimal(back(sensorReadings).humidity)>> ELSE <<>>,
     temperatureThreshold |-> temperatureThreshold,
     humidityThreshold |-> humidityThreshold,
     lastUpdated |-> time,
     data |-> [i \in 1..Len(sensorReadings) |-> JsonReading(sensorReadings[i])],
     tecState |-> tecState,
     waterPumpState |-> waterPumpState]

NoResponse == [path |-> NoRequest, body |-> <<>>]

---------------------------------------------------------------------------
(* Initial state: globals as declared, pins as setup() leaves them *)

\* An environment: the values the inputs may take and the bounds of the run
Inputs(rawsT, rawsH, temps, hums, buttons, requests, gaps, starts, maxTicks, maxInvalid) ==
    [rawsT |-> rawsT, rawsH |-> rawsH, temps |-> temps, hums |-> hums,
     buttons |-> buttons, requests |-> requests, gaps |-> gaps, starts |-> starts,
     maxTicks |-> maxTicks, maxInvalid |-> maxInvalid, quiet |-> {}]

\* The requests that may be waiting at pass t: none during the quiet passes
RequestsAt(E, t) == IF t \in E.quiet THEN {NoRequest} ELSE E.requests

\* The inputs the next pass of loop() will sample
Sample(E, rejectedSoFar) ==
    /\ potTemp' \in E.rawsT
    /\ potHum' \in E.rawsH
    /\ dhtTemperature' \in E.temps
    /\ dhtHumidity' \in E.hums
    /\ (~IsValidSample(dhtTemperature', dhtHumidity')) => rejectedSoFar < E.maxInvalid
    /\ buttonPin' \in E.buttons
    /\ clientRequest' \in RequestsAt(E, ticks + 1)

\* What a pass leaves behind: the inputs it sampled and the engine state at its end
EndOfPass ==
    [potTemp |-> potTemp, potHum |-> potHum,
     dhtTemperature |-> dhtTemperature, dhtHumidity |-> dhtHumidity,
     temperatureThreshold |-> temperatureThreshold,
     humidityThreshold |-> humidityThreshold,
     size |-> Len(sensorReadings),
     latest |-> IF sensorReadings = <<>> THEN <<>> ELSE <<back(sensorReadings)>>,
     tecState |-> tecState,
     waterPumpState |-> waterPumpState,
     waterPumpCycleStartTime |-> waterPumpCycleStartTime,
     gpio |-> gpio]

InitWith(E) ==
    /\ pc = "handleClient"
    /\ now \in E.starts
    /\ unixMillis = NtpEpoch * 1000 + SetupDelay
    /\ potTemp \in E.rawsT
    /\ potHum \in E.rawsH
    /\ dhtTemperature \in E.temps
    /\ dhtHumidity \in E.hums
    /\ (~IsValidSample(dhtTemperature, dhtHumidity)) => 0 < E.maxInvalid
    /\ buttonPin \in E.buttons
    /\ clientRequest \in RequestsAt(E, 0)
    /\ temperatureThreshold = 0
    /\ humidityThreshold = 0
    /\ sensorReadings = <<>>
    /\ newData = NoData
    /\ tecState = "Inactive"
    /\ waterPumpState = "Off"
    /\ waterPumpCycleStartTime = U32(0)
    /\ gpio = [p \in OutputPins |-> LOW]
    /\ displayThresholds = FALSE
    /\ lastButtonState = HIGH
    /\ lastDebounceTime = U32(0)
    /\ lcd = [view |-> "boot", line0 |-> <<>>, line1 |-> <<>>]
    /\ response = NoResponse
    /\ accepted = <<>>
    /\ ticks = 0
    /\ firstArming = [armed |-> FALSE, at |-> U32(0)]
    /\ previous = EndOfPass
    /\ sinceCycleStart = now

---------------------------------------------------------------------------
(* loop(), one action per statement group *)

\* handleClient with a handler that also re-reads the temperature potentiometer
handleClient_Refresh ==
    /\ pc = "handleClient"
    /\ response' = IF clientRequest = "/sensorDataJSON"
                   THEN [path |-> clientRequest, body |-> <<StatusJSON>>]
                   ELSE IF clientRequest = "/"
                   THEN [path |-> clientRequest, body |-> <<>>]
                   ELSE response
    /\ temperatureThreshold' = IF clientRequest = "/sensorDataJSON"
                               THEN map(potTemp, 0, AnalogMax, 0, PercentMax)
                               ELSE temperatureThreshold
    /\ clientRequest' = NoRequest
    /\ pc' = "readThresholds"
    /\ UNCHANGED <<sinceCycleStart, previous, now, unixMillis, potTemp, potHum, dhtTemperature, dhtHumidity,
                   buttonPin, humidityThreshold, sensorReadings, tecState, waterPumpState,
                   waterPumpCycleStartTime, gpio, newData, displayThresholds,
                   lastButtonState, lastDebounceTime, lcd, accepted, ticks, firstArming>>

\* line 505: server.handleClient() serves at most the one waiting request
handleClient ==
    /\ pc = "handleClient"
    /\ response' = IF clientRequest = "/sensorDataJSON"
                   THEN [path |-> clientRequest, body |-> <<StatusJSON>>]
                   ELSE IF clientRequest = "/"
                   THEN [path |-> clientRequest, body |-> <<>>]
                   ELSE response
    /\ clientRequest' = NoRequest
    /\ pc' = "readThresholds"
    /\ UNCHANGED <<sinceCycleStart, previous, now, unixMillis, potTemp, potHum, dhtTemperature, dhtHumidity,
                   buttonPin, engine, newData, displayThresholds, lastButtonState,
                   lastDebounceTime, lcd, accepted, ticks, firstArming>>

\* lines 77-81
readThresholds ==
    /\ pc = "readThresholds"
    /\ temperatureThreshold' = map(potTemp, 0, AnalogMax, 0, PercentMax)
    /\ humidityThreshold' = map(potHum, 0, AnalogMax, 0, PercentMax)
    /\ pc' = "storeSensorData"
    /\ UNCHANGED <<sinceCycleStart, previous, now, unixMillis, potTemp, potHum, dhtTemperature, dhtHumidity,
                   buttonPin, clientRequest, sensorReadings, newData, tecState,
                   waterPumpState, waterPumpCycleStartTime, gpio, displayThresholds,
                   lastButtonState, lastDebounceTime, lcd, response, accepted, ticks,
                   firstArming>>

\* lines 86-94: read the sensor, validate, make room
storeSensorData ==
    /\ pc = "storeSensorData"
    /\ IF IsValidSample(dhtTemperature, dhtHumidity)
       THEN /\ sensorReadings' = EraseIfFull(sensorReadings)
            /\ newData' = [valid |-> TRUE, temperature |-> dhtTemperature,
                           humidity |-> dhtHumidity]
            /\ pc' = "push_back"
       ELSE /\ UNCHANGED <<sensorReadings, newData>>
            /\ pc' = "controlTec"
    /\ UNCHANGED <<sinceCycleStart, previous, now, unixMillis, potTemp, potHum, dhtTemperature, dhtHumidity,
                   buttonPin, clientRequest, temperatureThreshold, humidityThreshold,
                   tecState, waterPumpState, waterPumpCycleStartTime, gpio,
                   displayThresholds, lastButtonState, lastDebounceTime, lcd, response,
                   accepted, ticks, firstArming>>

\* lines 95-96: SensorData newData = {temp, hum, time(nullptr)}; push_back(newData)
push_back ==
    /\ pc = "push_back"
    /\ LET d == [temperature |-> newData.temperature, humidity |-> newData.humidity,
                 timestamp |-> time]
       IN  /\ sensorReadings' = Append(sensorReadings, d)
           /\ accepted' = Append(accepted, d)
    /\ newData' = NoData
    /\ pc' = "controlTec"
    /\ UNCHANGED <<sinceCycleStart, previous, now, unixMillis, potTemp, potHum, dhtTemperature, dhtHumidity,
                   buttonPin, clientRequest, temperatureThreshold, humidityThreshold,
                   tecState, waterPumpState, waterPumpCycleStartTime, gpio,
                   displayThresholds, lastButtonState, lastDebounceTime, lcd, response,
                   ticks, firstArming>>

\* The levels each branch of lines 148-176 writes
\* FanIn1Level leaving the fan running in the Inactive branch
FanIn1Level_AlwaysOn(branch) == HIGH

CoolerIn1Level(branch) == IF branch = "Cooling" THEN HIGH ELSE LOW
CoolerIn2Level(branch) == IF branch = "Heating" THEN HIGH ELSE LOW
FanIn1Level(branch) == IF branch = "Inactive" THEN LOW ELSE HIGH

\* controlTec without the early return of line 140: with no reading yet the
\* regulator runs on a zero-initialised SensorData
controlTec_Unguarded ==
    /\ pc = "controlTec"
    /\ IF sensorReadings = <<>>
       THEN LET branch == TecBranch(0, temperatureThreshold)
            IN  /\ gpio' = [gpio EXCEPT ![COOLER_IN1_PIN] = CoolerIn1Level(branch),
                                        ![COOLER_IN2_PIN] = CoolerIn2Level(branch),
                                        ![FAN_IN1_PIN] = FanIn1Level(branch)]
                /\ tecState' = branch
                /\ pc' = "button"
       ELSE LET branch == TecBranch(back(sensorReadings).temperature, temperatureThreshold)
            IN  /\ gpio' = [gpio EXCEPT ![COOLER_IN1_PIN] = CoolerIn1Level(branch)]
                /\ pc' = "controlTecIn2"
                /\ UNCHANGED tecState
    /\ UNCHANGED <<sinceCycleStart, previous, now, unixMillis, potTemp, potHum, dhtTemperature, dhtHumidity,
                   buttonPin, clientRequest, temperatureThreshold, humidityThreshold,
                   sensorReadings, newData, waterPumpState,
                   waterPumpCycleStartTime, displayThresholds, lastButtonState,
                   lastDebounceTime, lcd, response, accepted, ticks, firstArming>>

\* lines 140-149/159/169: the early return, the branch test and the branch's first
\* digitalWrite, the one to COOLER_IN1_PIN
controlTec ==
    /\ pc = "controlTec"
    /\ IF sensorReadings = <<>>
       THEN /\ pc' = "button"
            /\ UNCHANGED gpio
       ELSE LET branch == TecBranch(back(sensorReadings).temperature, temperatureThreshold)
            IN  /\ gpio' = [gpio EXCEPT ![COOLER_IN1_PIN] = CoolerIn1Level(branch)]
                /\ pc' = "controlTecIn2"
    /\ UNCHANGED <<sinceCycleStart, previous, now, unixMillis, potTemp, potHum, dhtTemperature, dhtHumidity,
                   buttonPin, clientRequest, temperatureThreshold, humidityThreshold,
                   sensorReadings, newData, tecState, waterPumpState,
                   waterPumpCycleStartTime, displayThresholds, lastButtonState,
                   lastDebounceTime, lcd, response, accepted, ticks, firstArming>>

\* lines 150-155/160-165/170-175: the rest of the taken branch: the write to
\* COOLER_IN2_PIN, tecState, and the fan
controlTecIn2 ==
    /\ pc = "controlTecIn2"
    /\ LET branch == TecBranch(back(sensorReadings).temperature, temperatureThreshold)
       IN  /\ gpio' = [gpio EXCEPT ![COOLER_IN2_PIN] = CoolerIn2Level(branch),
                                   ![FAN_IN1_PIN] = FanIn1Level(branch),
                                   ![FAN_IN2_PIN] = LOW]
           /\ tecState' = branch
    /\ pc' = "controlPump"
    /\ UNCHANGED <<sinceCycleStart, previous, now, unixMillis, potTemp, potHum, dhtTemperature, dhtHumidity,
                   buttonPin, clientRequest, temperatureThreshold, humidityThreshold,
                   sensorReadings, newData, waterPumpState, waterPumpCycleStartTime,
                   displayThresholds, lastButtonState, lastDebounceTime, lcd, response,
                   accepted, ticks, firstArming>>

\* lines 178-206: the water pump
controlPump ==
    /\ pc = "controlPump"
    /\ LET currentTime == millis
           deficit == HumidityDeficit(back(sensorReadings).humidity, humidityThreshold)
           start == CycleStartAfterCheck(currentTime, waterPumpCycleStartTime)
           on == deficit /\ InOnPhase(currentTime, start)
       IN  /\ waterPumpCycleStartTime' = IF deficit THEN start ELSE currentTime
           /\ waterPumpState' = IF on THEN "On" ELSE "Off"
           /\ gpio' = [gpio EXCEPT ![WATERPUMP_IN1_PIN] = IF on THEN HIGH ELSE LOW,
                                   ![WATERPUMP_IN2_PIN] = LOW]
           /\ sinceCycleStart' =
                  IF (IF deficit THEN start ELSE currentTime) = currentTime
                  THEN U32(0) ELSE sinceCycleStart
           /\ firstArming' = IF deficit /\ ~firstArming.armed
                             THEN [armed |-> TRUE, at |-> currentTime]
                             ELSE firstArming
    /\ pc' = "button"
    /\ UNCHANGED <<previous, now, unixMillis, potTemp, potHum, dhtTemperature, dhtHumidity,
                   buttonPin, clientRequest, temperatureThreshold, humidityThreshold,
                   sensorReadings, newData, tecState, displayThresholds, lastButtonState,
                   lastDebounceTime, lcd, response, accepted, ticks>>

\* lines 510-527: the display-mode button
button ==
    /\ pc = "button"
    /\ LET currentButtonState == buttonPin
           debounce == IF currentButtonState # lastButtonState
                       THEN millis ELSE lastDebounceTime
       IN  /\ lastDebounceTime' = debounce
           /\ displayThresholds' =
                  IF DebounceElapsed(millis, debounce) /\ currentButtonState = LOW
                  THEN ~displayThresholds ELSE displayThresholds
           /\ lastButtonState' = currentButtonState
    /\ pc' = "updateLCD"
    /\ UNCHANGED <<sinceCycleStart, previous, now, unixMillis, potTemp, potHum, dhtTemperature, dhtHumidity,
                   buttonPin, clientRequest, engine, newData, lcd, response, accepted,
                   ticks, firstArming>>

\* lines 103-134
updateLCD ==
    /\ pc = "updateLCD"
    /\ lcd' = IF displayThresholds
              THEN [view |-> "thresholds", line0 |-> <<temperatureThreshold>>,
                    line1 |-> <<humidityThreshold>>]
              ELSE IF sensorReadings # <<>>
              THEN [view |-> "reading",
                    line0 |-> <<OneDecimal(back(sensorReadings).temperature)>>,
                    line1 |-> <<OneDecimal(back(sensorReadings).humidity)>>]
              ELSE [view |-> "placeholder", line0 |-> <<>>, line1 |-> <<>>]
    /\ pc' = "delay"
    /\ UNCHANGED <<sinceCycleStart, previous, now, unixMillis, potTemp, potHum, dhtTemperature, dhtHumidity,
                   buttonPin, clientRequest, engine, newData, displayThresholds,
                   lastButtonState, lastDebounceTime, response, accepted, ticks,
                   firstArming>>

\* line 531: delay(2000).  The pass took gap >= 2000 ms in all (the pause plus the
\* time the statements and the served request took); meanwhile the inputs move.
delay(E) ==
    /\ pc = "delay"
    /\ ticks < E.maxTicks
    /\ \E gap \in E.gaps :
          /\ gap >= LoopDelay
          /\ now' = Add32(now, gap)
          /\ unixMillis' = unixMillis + gap
          /\ sinceCycleStart' = AddNat(sinceCycleStart, gap)
    /\ Sample(E, (ticks + 1) - Len(accepted))
    /\ ticks' = ticks + 1
    /\ previous' = EndOfPass
    /\ pc' = "handleClient"
    /\ UNCHANGED <<engine, newData, displayThresholds, lastButtonState,
                   lastDebounceTime, lcd, response, accepted, firstArming>>

NextWith(E) ==
    \/ handleClient
    \/ readThresholds
    \/ storeSensorData
    \/ push_back
    \/ controlTec
    \/ controlTecIn2
    \/ controlPump
    \/ button
    \/ updateLCD
    \/ delay(E)

---------------------------------------------------------------------------
(* Environments and specifications *)

MaxTicks == 2
MaxTicksPump == 4
MaxTicksFifo == 101
MaxInvalidFifo == 1

\* monotonic clock at the first pass: right after setup(), and shortly before the
\* counter wraps (the state after a long run in which the sensor never answered)
StartTimes == {U32(SetupDelay), [hi |-> Limb - 1, lo |-> Limb - 3000]}

\* General environment: thresholds 24/25 C and 50/25 %, temperatures outside,
\* inside and on the edges of the dead band, a failing sensor, early and
\* near-wrap clocks
Env ==
    Inputs({983, 1024}, {2048, 1024}, {NaN, 220, 242, 245, 260}, {400},
           {HIGH}, {NoRequest}, {LoopDelay}, StartTimes,
           MaxTicks, MaxTicks + 1)

\* Pump environment: fixed thresholds (24 C, 50 %), a sensor that always answers,
\* humidity below and at the threshold, passes of 2 s, 20 s and 22 s, early and
\* near-wrap clocks
EnvPump ==
    Inputs({983}, {2048}, {245}, {400, 500},
           {HIGH}, {NoRequest}, {LoopDelay, 20000, 22000}, StartTimes,
           MaxTicksPump, 0)

\* History environment: one reading value, the sensor failing at most
\* MaxInvalidFifo times (temperature alone or humidity alone)
EnvFifo ==
    Inputs({983}, {2048}, {NaN, 245}, {NaN, 400},
           {HIGH}, {NoRequest}, {LoopDelay}, {U32(SetupDelay)},
           MaxTicksFifo, MaxInvalidFifo)

MaxTicksMap == 1

\* Threshold environments: the first pass samples any raw value of the 12-bit
\* converter on the temperature potentiometer and an end stop on the humidity
\* potentiometer; later passes sample the end stops
EnvMapAll ==
    Inputs(0 .. AnalogMax, {0, AnalogMax}, {245}, {400},
           {HIGH}, {NoRequest}, {LoopDelay}, {U32(SetupDelay)},
           MaxTicksMap, 0)

EnvMapEnds ==
    Inputs({0, AnalogMax}, {0, AnalogMax}, {245}, {400},
           {HIGH}, {NoRequest}, {LoopDelay}, {U32(SetupDelay)},
           MaxTicksMap, 0)

MaxTicksStatus == 2

\* Status environment: a request may wait at every pass, the button may be held
\* or released, the temperature threshold moves between 24 and 25, the sensor
\* may fail
EnvStatus ==
    Inputs({983, 1024}, {2048}, {NaN, 250}, {400},
           {HIGH, LOW}, {NoRequest, "/sensorDataJSON"}, {LoopDelay}, StartTimes,
           MaxTicksStatus, MaxTicksStatus + 1)

\* Long-run status environment: a sensor that always answers, requests during
\* the first two passes and again once the history has filled
EnvFull ==
    [Inputs({983}, {2048}, {245}, {400},
            {HIGH}, {NoRequest, "/sensorDataJSON"}, {LoopDelay}, {U32(SetupDelay)},
            MaxTicksFifo, 0)
     EXCEPT !.quiet = 2 .. HistoryCapacity - 1]

MaxTicksLive == 13

\* Sustained-deficit environment: fixed thresholds (24 C, 50 %), every sample
\* valid with humidity 40 %, passes of 2 s or 20 s
EnvLive ==
    Inputs({983}, {2048}, {245}, {400},
           {HIGH}, {NoRequest}, {LoopDelay, 20000}, {U32(SetupDelay)},
           MaxTicksLive, 0)

Init == InitWith(Env)
Next == NextWith(Env)
Spec == Init /\ [][Next]_vars

InitPump == InitWith(EnvPump)
NextPump == NextWith(EnvPump)
SpecPump == InitPump /\ [][NextPump]_vars

InitFifo == InitWith(EnvFifo)
NextFifo == NextWith(EnvFifo)
SpecFifo == InitFifo /\ [][NextFifo]_vars

InitStatus == InitWith(EnvStatus)
NextStatus == NextWith(EnvStatus)
SpecStatus == InitStatus /\ [][NextStatus]_vars

InitFull == InitWith(EnvFull)
NextFull == NextWith(EnvFull)
SpecFull == InitFull /\ [][NextFull]_vars

\* loop() is called again and again: a pass that can take its next step takes it
InitLive == InitWith(EnvLive)
NextLive == NextWith(EnvLive)
SpecLive == InitLive /\ [][NextLive]_vars /\ WF_vars(NextLive)

InitMap == InitWith(EnvMapAll)
NextMap == NextWith(EnvMapEnds)
SpecMap == InitMap /\ [][NextMap]_vars

---------------------------------------------------------------------------
(* Observations used by the properties *)

\* The controllers of the current pass have run (or returned early)
AfterControl == pc \in {"button", "updateLCD", "delay"}

\* The pump evaluation of the current pass has just finished
AfterEvaluation == pc = "button" /\ sensorReadings # <<>>

Latest == back(sensorReadings)

Min(a, b) == IF a < b THEN a ELSE b

\* the last k elements of s
LastN(s, k) == SubSeq(s, Len(s) - k + 1, Len(s))

\* a small unsigned value as an integer
ToInt(x) == x.hi * Limb + x.lo

SampleInvalid == isnan(dhtTemperature) \/ isnan(dhtHumidity)

---------------------------------------------------------------------------
(* Properties *)

\* C1: the two TEC direction outputs COOLER_IN1 and COOLER_IN2 are never both
\* HIGH, in any reachable state.
C1_NeverBothDirectionsAsserted ==
    ~(gpio[COOLER_IN1_PIN] = HIGH /\ gpio[COOLER_IN2_PIN] = HIGH)

\* C2: once the controllers of a pass have run on a non-empty history, the
\* threshold is the one mapped from this pass's analog sample and the thermal
\* state and fan are given by the newest temperature t alone: Cooling and fan on
\* iff t > T + 0.5, Heating and fan on iff t < T - 0.5, Inactive and fan off iff
\* T - 0.5 <= t <= T + 0.5.
C2_ThermalStateIsThreeWayRule ==
    (AfterControl /\ sensorReadings # <<>>) =>
        LET t == Latest.temperature
            T == temperatureThreshold
        IN  /\ T = (potTemp * 100) \div 4095
            /\ tecState = "Cooling" <=> t > 10 * T + 5
            /\ tecState = "Heating" <=> t < 10 * T - 5
            /\ tecState = "Inactive" <=> (10 * T - 5 <= t /\ t <= 10 * T + 5)
            /\ gpio[FAN_IN1_PIN] = HIGH <=> tecState \in {"Cooling", "Heating"}
            /\ gpio[FAN_IN2_PIN] = LOW

\* C2 witness: T = 24 and t = 24.5, the upper edge, gives Inactive and fan off
\* right after a pass that was Cooling.
C2_Witness ==
    /\ pc = "delay"
    /\ Len(sensorReadings) = 2
    /\ sensorReadings[1].temperature = 260
    /\ Latest.temperature = 245
    /\ temperatureThreshold = 24
    /\ tecState = "Inactive"
    /\ gpio[FAN_IN1_PIN] = LOW

\* C3: the history never holds more than 100 entries, in any state, the one
\* between the eviction and the append included.
C3_HistoryAtMostCapacity == Len(sensorReadings) <= HistoryCapacity

\* C3 witness: more than 100 readings were accepted and the history is full.
C3_Witness == Len(accepted) > HistoryCapacity /\ Len(sensorReadings) = HistoryCapacity

\* C4: the history is the last min(n, 100) of the n accepted readings, in
\* acceptance order (so its last element is the newest accepted reading); between
\* the eviction and the append it is the last min(n, 99).
C4_HistoryIsFifoOfAccepted ==
    LET n == Len(accepted)
    IN  IF pc = "push_back"
        THEN sensorReadings = LastN(accepted, Min(n, HistoryCapacity - 1))
        ELSE /\ sensorReadings = LastN(accepted, Min(n, HistoryCapacity))
             /\ n = HistoryCapacity + 1 =>
                    (sensorReadings[1] = accepted[2] /\ Len(sensorReadings) = HistoryCapacity)

\* C4 witness: 101 readings accepted and at least one rejected; the first element
\* is the 2nd accepted reading.
C4_Witness ==
    /\ pc = "delay"
    /\ Len(accepted) = HistoryCapacity + 1
    /\ ticks + 1 > Len(accepted)
    /\ sensorReadings[1] = accepted[2]
    /\ sensorReadings[1] # accepted[1]

\* C5: a pass whose sample has a NaN temperature or a NaN humidity leaves the
\* history exactly as it was and goes on to the controllers; no other statement
\* of the pass touches the history.
C5_InvalidSampleLeavesHistory ==
    [][/\ (pc = "storeSensorData" /\ SampleInvalid) =>
              (sensorReadings' = sensorReadings /\ pc' = "controlTec")
       /\ (pc \notin {"storeSensorData", "push_back"}) =>
              sensorReadings' = sensorReadings]_vars

\* C5 witness: a sample with a NaN humidity alone was rejected while the history
\* was at capacity.
C5_Witness ==
    /\ pc = "controlTec"
    /\ isnan(dhtHumidity) /\ ~isnan(dhtTemperature)
    /\ Len(sensorReadings) = HistoryCapacity
    /\ Len(accepted) = HistoryCapacity

\* C6: while the history is empty the thermal state, every output, the pump mode
\* and cycleStartTime keep their initial values: Inactive, Off, all LOW, 0.
C6_NoReadingNoActuation ==
    sensorReadings = <<>> =>
        /\ tecState = "Inactive"
        /\ waterPumpState = "Off"
        /\ \A p \in OutputPins : gpio[p] = LOW
        /\ waterPumpCycleStartTime = U32(0)

\* C6 witness: two passes without an accepted reading, thresholds set, and more
\* than a cycle period on the clock.
C6_Witness ==
    /\ pc = "delay"
    /\ ticks = 1
    /\ sensorReadings = <<>>
    /\ temperatureThreshold = 24
    /\ humidityThreshold = 50
    /\ Ge32(Sub32(now, waterPumpCycleStartTime), waterPumpCyclePeriod)

\* C7: after a pump evaluation that found h >= humidityThreshold the pump mode is
\* Off, the pump output is LOW and cycleStartTime is the time of the evaluation.
C7_SatisfiedForcesOffAndResets ==
    (AfterEvaluation /\ Latest.humidity >= 10 * humidityThreshold) =>
        /\ waterPumpState = "Off"
        /\ gpio[WATERPUMP_IN1_PIN] = LOW
        /\ gpio[WATERPUMP_IN2_PIN] = LOW
        /\ waterPumpCycleStartTime = now

\* C7 witness: the first evaluation turned the pump On (deficit, cycle over), the
\* second, 2 s later, found h = Hu = 50 and forced it Off with a fresh anchor.
C7_Witness ==
    /\ AfterEvaluation
    /\ Len(accepted) = 2
    /\ accepted[1].humidity = 400
    /\ Latest.humidity = 500
    /\ humidityThreshold = 50
    /\ firstArming.armed
    /\ Ge32(firstArming.at, waterPumpCyclePeriod)
    /\ now = Add32(firstArming.at, LoopDelay)
    /\ waterPumpState = "Off"
    /\ waterPumpCycleStartTime = now

\* Every accepted reading so far was below the threshold (in the pump environment
\* the sensor always answers and the threshold stays put, so these are the
\* readings of all evaluations so far)
DeficitEverSince == \A i \in 1..Len(accepted) : accepted[i].humidity < 10 * humidityThreshold

\* C8 as stated: under a sustained deficit the pump mode after an evaluation is On
\* iff the evaluation falls in ms 0-1999 of a 22000 ms window counted from the
\* first arming.
C8_WindowsFromFirstArming ==
    (AfterEvaluation /\ DeficitEverSince /\ firstArming.armed) =>
        (waterPumpState = "On" <=>
            ToInt(Sub32(now, firstArming.at)) % waterPumpCyclePeriod < waterPumpOnDuration)

\* C8 amended: windows are counted from cycleStartTime.  After an evaluation that
\* found a deficit, less than 22000 ms lie between cycleStartTime and the
\* evaluation, and the pump mode is On (output HIGH) iff less than 2000 ms do, Off
\* (output LOW) otherwise.
C8_WindowsFromCycleStart ==
    (AfterEvaluation /\ Latest.humidity < 10 * humidityThreshold) =>
        LET elapsed == Sub32(now, waterPumpCycleStartTime)
        IN  /\ Lt32(elapsed, waterPumpCyclePeriod)
            /\ waterPumpState = "On" <=> Lt32(elapsed, waterPumpOnDuration)
            /\ waterPumpState = "Off" <=> Ge32(elapsed, waterPumpOnDuration)
            /\ gpio[WATERPUMP_IN1_PIN] = HIGH <=> waterPumpState = "On"

\* C8 witness: sustained deficit from the first pass at clock 2000; the first
\* evaluation left the pump Off, a later one, exactly one period after the
\* anchor, started a new cycle and turned it On.
C8_Witness ==
    /\ AfterEvaluation
    /\ DeficitEverSince
    /\ firstArming.armed /\ firstArming.at = U32(SetupDelay)
    /\ now = U32(waterPumpCyclePeriod)
    /\ waterPumpCycleStartTime = now
    /\ waterPumpState = "On"

\* The pump evaluation is about to run on a deficit, right after an evaluation
\* that found the humidity satisfied
DeficitAfterSatisfied ==
    /\ Len(accepted) >= 2
    /\ accepted[Len(accepted) - 1].humidity >= 10 * humidityThreshold
    /\ Latest.humidity < 10 * humidityThreshold

\* C9 as stated: satisfied at one evaluation and in deficit at the next, the pump
\* is On after that next evaluation.
C9_OnAtOnceAfterSatisfied ==
    (AfterEvaluation /\ DeficitAfterSatisfied) => waterPumpState = "On"

\* C9 amended: the evaluation that follows a satisfied one comes at least 2000 ms
\* after it, so on a deficit it leaves the pump Off and the anchor where the
\* satisfied evaluation put it, unless 22000 ms or more have passed, when it
\* starts a new cycle and turns the pump On.
C9_FullDelayAfterSatisfied ==
    [][(pc = "controlPump" /\ DeficitAfterSatisfied) =>
           LET sinceSatisfied == Sub32(now, waterPumpCycleStartTime)
           IN  /\ Ge32(sinceSatisfied, LoopDelay)
               /\ IF Ge32(sinceSatisfied, waterPumpCyclePeriod)
                  THEN /\ waterPumpState' = "On"
                       /\ waterPumpCycleStartTime' = now
                  ELSE /\ waterPumpState' = "Off"
                       /\ gpio'[WATERPUMP_IN1_PIN] = LOW
                       /\ waterPumpCycleStartTime' = waterPumpCycleStartTime]_vars

\* C9 witness: satisfied, then in deficit 2 s later: the pump is Off and the
\* anchor is still the time of the satisfied evaluation.
C9_Witness ==
    /\ AfterEvaluation
    /\ DeficitAfterSatisfied
    /\ Sub32(now, waterPumpCycleStartTime) = U32(LoopDelay)
    /\ waterPumpState = "Off"

\* C10: at the end of a pass, a pump that is On (or whose output is HIGH) has a
\* non-empty history whose newest humidity is below the threshold mapped from
\* this pass's analog sample.
C10_PumpOnOnlyUnderDeficit ==
    (AfterControl /\ (waterPumpState = "On" \/ gpio[WATERPUMP_IN1_PIN] = HIGH)) =>
        /\ sensorReadings # <<>>
        /\ humidityThreshold = (potHum * 100) \div 4095
        /\ Latest.humidity < 10 * humidityThreshold
        /\ waterPumpState = "On" /\ gpio[WATERPUMP_IN1_PIN] = HIGH

\* C10 witness: the pump is On at the end of a pass.
C10_Witness ==
    /\ pc = "delay"
    /\ waterPumpState = "On"
    /\ Latest.humidity = 400
    /\ humidityThreshold = 50

---------------------------------------------------------------------------
(* Properties relating a pass to the pass before it *)

\* A pass has ended and another one ended before it
EndOfLaterPass == pc = "delay" /\ ticks >= 1

\* The history is what the previous pass left
SameHistory ==
    /\ Len(sensorReadings) = previous.size
    /\ previous.latest = IF sensorReadings = <<>> THEN <<>> ELSE <<Latest>>

\* The thermal state, the TEC direction outputs and the fan are what the previous
\* pass left
SameThermal ==
    /\ tecState = previous.tecState
    /\ \A p \in {COOLER_IN1_PIN, COOLER_IN2_PIN, FAN_IN1_PIN, FAN_IN2_PIN} :
           gpio[p] = previous.gpio[p]

\* The pump mode, the pump outputs and the cycle anchor are what the previous
\* pass left
SamePump ==
    /\ waterPumpState = previous.waterPumpState
    /\ waterPumpCycleStartTime = previous.waterPumpCycleStartTime
    /\ \A p \in {WATERPUMP_IN1_PIN, WATERPUMP_IN2_PIN} : gpio[p] = previous.gpio[p]

\* The anchor moves exactly when the pump controller says so: on h >= Hu, or on a
\* deficit once a full period has elapsed
AnchorFollowsRule ==
    waterPumpCycleStartTime = previous.waterPumpCycleStartTime <=>
        /\ Latest.humidity < 10 * humidityThreshold
        /\ Lt32(Sub32(now, previous.waterPumpCycleStartTime), waterPumpCyclePeriod)

\* C11 as stated: after a pass whose sample was rejected, the history, the thermal
\* state, the TEC and fan outputs, the pump mode and cycleStartTime are what the
\* previous pass left.
C11_RejectedPassChangesNothing ==
    (EndOfLaterPass /\ SampleInvalid) => (SameHistory /\ SameThermal /\ SamePump)

\* C11 amended: after a pass whose sample was rejected the history is what the
\* previous pass left; with an empty history so is everything else; otherwise the
\* controllers ran again on the same reading: the thermal state and the TEC and
\* fan outputs are unchanged whenever the temperature threshold is, and
\* cycleStartTime is unchanged iff the humidity is still in deficit and less than
\* a period has elapsed since it.
C11_RejectedPassReevaluates ==
    (EndOfLaterPass /\ SampleInvalid) =>
        /\ SameHistory
        /\ sensorReadings = <<>> => (SameThermal /\ SamePump)
        /\ temperatureThreshold = previous.temperatureThreshold => SameThermal
        /\ sensorReadings # <<>> => AnchorFollowsRule

\* C11 witness: the sample was rejected, the temperature threshold moved and the
\* clock advanced: the thermal state changed and the pump went from On to Off.
C11_Witness ==
    /\ EndOfLaterPass /\ SampleInvalid
    /\ sensorReadings # <<>>
    /\ temperatureThreshold # previous.temperatureThreshold
    /\ tecState # previous.tecState
    /\ previous.waterPumpState = "On" /\ waterPumpState = "Off"
    /\ waterPumpCycleStartTime = previous.waterPumpCycleStartTime

\* The pass sampled the same analog inputs and the same valid reading as the
\* previous pass
SameValidInputs ==
    /\ potTemp = previous.potTemp /\ potHum = previous.potHum
    /\ dhtTemperature = previous.dhtTemperature /\ dhtHumidity = previous.dhtHumidity
    /\ ~SampleInvalid

\* C12 as stated: with the same analog inputs and the same valid reading as in the
\* previous pass, the thermal state, the pump mode and anchor and the history
\* length are what the previous pass left.
C12_RepeatedPassIsStable ==
    (EndOfLaterPass /\ SameValidInputs) =>
        /\ SameThermal
        /\ SamePump
        /\ Len(sensorReadings) = previous.size

\* C12 amended: with the same analog inputs and the same valid reading as in the
\* previous pass, the thresholds, the thermal state and the TEC and fan outputs
\* are what the previous pass left; the history has grown by one entry unless it
\* was full; the pump follows the clock: with h >= Hu it stays Off while the
\* anchor moves to the evaluation, with h < Hu the anchor stays until a period
\* has elapsed.
C12_RepeatedPassThermalStable ==
    (EndOfLaterPass /\ SameValidInputs) =>
        /\ temperatureThreshold = previous.temperatureThreshold
        /\ humidityThreshold = previous.humidityThreshold
        /\ SameThermal
        /\ Len(sensorReadings) = Min(previous.size + 1, HistoryCapacity)
        /\ Latest.humidity >= 10 * humidityThreshold =>
               (waterPumpState = "Off" /\ previous.waterPumpState = "Off"
                /\ waterPumpCycleStartTime = now)
        /\ AnchorFollowsRule

\* C12 witness: same inputs twice; Cooling both times, the history grew to 2 and
\* the pump went from On to Off.
C12_Witness ==
    /\ EndOfLaterPass /\ SameValidInputs
    /\ tecState = "Cooling"
    /\ Len(sensorReadings) = 2
    /\ previous.waterPumpState = "On" /\ waterPumpState = "Off"

\* The newest temperature lies inside [T - H/2, T + H/2]
InDeadBand ==
    /\ sensorReadings # <<>>
    /\ 10 * temperatureThreshold - 5 <= Latest.temperature
    /\ Latest.temperature <= 10 * temperatureThreshold + 5

\* C18 as stated: with the newest temperature inside the dead band, the thermal
\* state and the TEC and fan outputs are what the previous pass left.
C18_DeadBandKeepsState ==
    (EndOfLaterPass /\ InDeadBand) => SameThermal

\* C18 amended: with the newest temperature inside the dead band the thermal state
\* is Inactive and the TEC and fan outputs are off, whatever the previous pass
\* left: a regulator that was Cooling or Heating is switched off, and nothing
\* changes only if it was Inactive already.
C18_DeadBandSwitchesOff ==
    (EndOfLaterPass /\ InDeadBand) =>
        /\ tecState = "Inactive"
        /\ \A p \in {COOLER_IN1_PIN, COOLER_IN2_PIN, FAN_IN1_PIN, FAN_IN2_PIN} :
               gpio[p] = LOW
        /\ SameThermal <=> previous.tecState = "Inactive"

\* C18 witness: Cooling after the previous pass, inside the band now, Inactive.
C18_Witness ==
    /\ EndOfLaterPass /\ InDeadBand
    /\ previous.tecState = "Cooling"
    /\ tecState = "Inactive"
    /\ gpio[COOLER_IN1_PIN] = LOW /\ gpio[FAN_IN1_PIN] = LOW

---------------------------------------------------------------------------
(* Reported states against actuator outputs *)

\* setup() has returned, or a pass of loop() has run to its end
EndOfSetupOrPass == pc = "delay" \/ (pc = "handleClient" /\ ticks = 0)

\* C20: at the end of setup() and of every pass, tecState is Cooling iff
\* COOLER_IN1 is HIGH and COOLER_IN2 is LOW, Heating iff COOLER_IN1 is LOW and
\* COOLER_IN2 is HIGH, Inactive iff both are LOW; the fan is on iff tecState is
\* Cooling or Heating; waterPumpState is On iff WATERPUMP_IN1 is HIGH.
C20_ReportedStatesMatchOutputs ==
    EndOfSetupOrPass =>
        /\ tecState = "Cooling" <=>
               (gpio[COOLER_IN1_PIN] = HIGH /\ gpio[COOLER_IN2_PIN] = LOW)
        /\ tecState = "Heating" <=>
               (gpio[COOLER_IN1_PIN] = LOW /\ gpio[COOLER_IN2_PIN] = HIGH)
        /\ tecState = "Inactive" <=>
               (gpio[COOLER_IN1_PIN] = LOW /\ gpio[COOLER_IN2_PIN] = LOW)
        /\ (gpio[FAN_IN1_PIN] = HIGH /\ gpio[FAN_IN2_PIN] = LOW) <=>
               tecState \in {"Cooling", "Heating"}
        /\ waterPumpState = "On" <=> gpio[WATERPUMP_IN1_PIN] = HIGH
        /\ gpio[WATERPUMP_IN2_PIN] = LOW

\* C20 witness: a pass ended Heating with the pump On.
C20_Witness ==
    /\ pc = "delay"
    /\ tecState = "Heating" /\ gpio[COOLER_IN2_PIN] = HIGH /\ gpio[FAN_IN1_PIN] = HIGH
    /\ waterPumpState = "On" /\ gpio[WATERPUMP_IN1_PIN] = HIGH

---------------------------------------------------------------------------
(* Threshold mapping *)

\* readThresholds has run in this pass: the thresholds are those of the sampled
\* potentiometers
MappedThisPass == pc \notin {"handleClient", "readThresholds"}

Percent == 0 .. PercentMax

\* C13: every raw sample in 0..4095 maps to an integer in 0..100, 0 to 0 and 4095
\* to 100, and a raw sample one higher never maps lower; both thresholds are in
\* 0..100 in every state.
C13_ThresholdsInRangeAndMonotonic ==
    /\ temperatureThreshold \in Percent
    /\ humidityThreshold \in Percent
    /\ MappedThisPass =>
           /\ potTemp = 0 => temperatureThreshold = 0
           /\ potTemp = AnalogMax => temperatureThreshold = PercentMax
           /\ potTemp < AnalogMax =>
                  temperatureThreshold <= map(potTemp + 1, 0, AnalogMax, 0, PercentMax)
           /\ potTemp > 0 =>
                  map(potTemp - 1, 0, AnalogMax, 0, PercentMax) <= temperatureThreshold
           /\ potHum = 0 => humidityThreshold = 0
           /\ potHum = AnalogMax => humidityThreshold = PercentMax

\* C13 witness: a raw sample strictly inside the range mapped strictly inside
\* 0..100, and the humidity potentiometer at its upper end stop mapped to 100.
C13_Witness ==
    /\ MappedThisPass
    /\ potTemp = 2048 /\ temperatureThreshold = 50
    /\ potHum = AnalogMax /\ humidityThreshold = PercentMax

---------------------------------------------------------------------------
(* Status queries *)

\* The value a one-decimal number of the response denotes, in tenths
Decimal(o) == (IF o.negative THEN -1 ELSE 1) * (10 * o.whole + o.tenth)

\* A status query is about to be served
Served == pc = "handleClient" /\ clientRequest = "/sensorDataJSON"

\* C15: the response to a status query has null latestTemperature and
\* latestHumidity and an empty data array iff no reading was ever accepted;
\* otherwise its latest values are those of the newest history entry and data
\* lists the history from oldest to newest, at most 100 elements; either way it
\* carries the current thresholds, a tecState in {Cooling, Heating, Inactive} and
\* a waterPumpState in {On, Off}.
C15_StatusReportsHistory ==
    [][Served =>
         LET b == response'.body[1]
         IN  /\ response'.path = "/sensorDataJSON"
             /\ b.latestTemperature = <<>> <=> accepted = <<>>
             /\ b.latestHumidity = <<>> <=> accepted = <<>>
             /\ b.data = <<>> <=> accepted = <<>>
             /\ accepted # <<>> =>
                    /\ Decimal(b.latestTemperature[1]) = Latest.temperature
                    /\ Decimal(b.latestHumidity[1]) = Latest.humidity
                    /\ Len(b.data) = Len(sensorReadings)
                    /\ Len(b.data) <= HistoryCapacity
                    /\ \A i \in 1 .. Len(b.data) :
                           /\ Decimal(b.data[i].temperature) = sensorReadings[i].temperature
                           /\ Decimal(b.data[i].humidity) = sensorReadings[i].humidity
                           /\ b.data[i].timestamp = sensorReadings[i].timestamp
                    /\ \A i \in 1 .. Len(b.data) - 1 :
                           b.data[i].timestamp <= b.data[i + 1].timestamp
             /\ b.temperatureThreshold = temperatureThreshold
             /\ b.humidityThreshold = humidityThreshold
             /\ b.tecState \in {"Cooling", "Heating", "Inactive"}
             /\ b.waterPumpState \in {"On", "Off"}]_vars

\* C15 witness: a query was served after more than 100 readings were accepted;
\* the response lists 100 of them, the oldest one gone.
C15_Witness ==
    /\ pc = "readThresholds"
    /\ response.path = "/sensorDataJSON"
    /\ Len(accepted) > HistoryCapacity
    /\ Len(response.body[1].data) = HistoryCapacity
    /\ response.body[1].data[1].timestamp = accepted[Len(accepted) - HistoryCapacity + 1].timestamp
    /\ response.body[1].data[1].timestamp # accepted[1].timestamp

\* C16: serving a status query, handling the button and the display mode,
\* refreshing the display and pausing leave the thresholds, the history, the
\* thermal state, the pump mode, cycleStartTime and every actuator output as they
\* were; only threshold mapping, ingestion and the two controllers change them.
C16_OnlyTheEngineWritesEngineState ==
    [][(pc \in {"handleClient", "button", "updateLCD", "delay"}) =>
           engine' = engine]_vars

\* C16 witness: a status query was served and the display mode toggled while
\* the engine held a reading and a running regulator.
C16_Witness ==
    /\ pc = "delay"
    /\ response.path = "/sensorDataJSON"
    /\ response.body[1].data # <<>>
    /\ displayThresholds /\ lcd.view = "thresholds"
    /\ sensorReadings # <<>>
    /\ tecState = "Cooling"

\* A response to a status query describes one completed pass
ConsistentSnapshot ==
    (response.path = "/sensorDataJSON" /\ response.body[1].data # <<>>) =>
        LET b == response.body[1]
            t == Decimal(b.latestTemperature[1])
            h == Decimal(b.latestHumidity[1])
            T == b.temperatureThreshold
        IN  /\ b.tecState = "Cooling" <=> t > 10 * T + 5
            /\ b.tecState = "Heating" <=> t < 10 * T - 5
            /\ b.tecState = "Inactive" <=> (10 * T - 5 <= t /\ t <= 10 * T + 5)
            /\ b.waterPumpState = "On" => h < 10 * b.humidityThreshold

\* C17: a response is built only by handleClient at the head of a pass, never
\* inside one, and every response with a non-empty data array is consistent: its
\* tecState is the three-way rule applied to its latest temperature and its
\* temperatureThreshold, and a waterPumpState of On comes with a latest humidity
\* below its humidityThreshold.
C17_ResponsesAreConsistentSnapshots ==
    /\ []ConsistentSnapshot
    /\ [][response' # response => pc = "handleClient"]_vars

\* C17 witness: the potentiometer moved from 24 to 25 after the pass the response
\* describes: the response reports threshold 24 and Cooling for 25.0.
C17_Witness ==
    /\ pc = "readThresholds"
    /\ response.path = "/sensorDataJSON"
    /\ response.body[1].data # <<>>
    /\ response.body[1].temperatureThreshold = 24
    /\ response.body[1].tecState = "Cooling"
    /\ potTemp = 1024
    /\ ticks >= 1

---------------------------------------------------------------------------
(* Liveness of the duty cycle *)

\* The most passes the Off phase can span: a pass takes at least LoopDelay
OffPasses == waterPumpOffDuration \div LoopDelay

\* C19: under a sustained deficit (every sample valid, humidity below the
\* threshold) and an advancing clock, the pump is On again and again and Off
\* again and again: an Off pump is On within the passes of one Off phase, an On
\* pump is Off after the next evaluation, as far as the run extends.  A new cycle
\* begins (cycleStartTime becomes the current time, the pump turns On) at the
\* first evaluation that finds 22000 ms or more elapsed since cycleStartTime,
\* and at no earlier one.
C19_DutyCycleKeepsTurning ==
    /\ (waterPumpState = "Off" /\ ticks + OffPasses <= MaxTicksLive)
           ~> waterPumpState = "On"
    /\ (waterPumpState = "On" /\ ticks + 1 <= MaxTicksLive)
           ~> waterPumpState = "Off"
    /\ [][(pc = "controlPump" /\ Latest.humidity < 10 * humidityThreshold) =>
            IF Ge32(Sub32(now, waterPumpCycleStartTime), waterPumpCyclePeriod)
            THEN waterPumpCycleStartTime' = now /\ waterPumpState' = "On"
            ELSE waterPumpCycleStartTime' = waterPumpCycleStartTime]_vars

\* C19 witness: after ten passes of 2 s the clock reads 22000, the evaluation
\* finds a full period elapsed since cycleStartTime = 0, restarts the cycle and
\* turns the pump On.
C19_Witness ==
    /\ pc = "delay"
    /\ ticks = 10
    /\ waterPumpState = "On"
    /\ previous.waterPumpState = "Off"
    /\ previous.waterPumpCycleStartTime = U32(0)
    /\ waterPumpCycleStartTime = U32(waterPumpCyclePeriod)

---------------------------------------------------------------------------
(* Pump pulses *)

\* The pump controller is about to evaluate; waterPumpState is what the previous
\* evaluation left
PumpEvaluation == pc = "controlPump"

\* C21 as stated: with evaluations at least 2000 ms apart and the first one at
\* least 2000 ms after clock zero, the pump is On after an evaluation only if
\* that evaluation set cycleStartTime to the current time, and the pump is never
\* On after two consecutive evaluations.
C21_NoRepeatedPulse ==
    [][PumpEvaluation =>
         /\ waterPumpState' = "On" => waterPumpCycleStartTime' = now
         /\ waterPumpState = "On" => waterPumpState' = "Off"]_vars

\* C21 amended: with evaluations at least 2000 ms apart and the first one at
\* least 2000 ms after clock zero, the pump is On after an evaluation only if
\* that evaluation set cycleStartTime to the current time; it is On after two
\* consecutive evaluations exactly when the second one finds a deficit and comes
\* a full period (22000 ms) or more after the first, and never otherwise.
C21_PulseOnlyAtRestart ==
    [][PumpEvaluation =>
         /\ waterPumpState' = "On" =>
                /\ waterPumpCycleStartTime' = now
                /\ waterPumpCycleStartTime # now
                /\ Ge32(Sub32(now, waterPumpCycleStartTime), waterPumpCyclePeriod)
         /\ waterPumpState = "On" =>
                (waterPumpState' = "On" <=>
                     /\ Latest.humidity < 10 * humidityThreshold
                     /\ Ge32(Sub32(now, waterPumpCycleStartTime), waterPumpCyclePeriod))
         /\ (waterPumpState = "On"
             /\ Lt32(Sub32(now, waterPumpCycleStartTime), waterPumpCyclePeriod)) =>
                waterPumpState' = "Off"]_vars

\* C21 witness: two consecutive evaluations a full period apart, both under a
\* deficit, both leaving the pump On; and before them one that turned it Off.
C21_Witness ==
    /\ pc = "delay"
    /\ ticks >= 2
    /\ previous.waterPumpState = "On"
    /\ waterPumpState = "On"
    /\ waterPumpCycleStartTime = now
    /\ Sub32(now, previous.waterPumpCycleStartTime) = U32(waterPumpCyclePeriod)

---------------------------------------------------------------------------
(* Counter wraparound *)

\* C22: as long as the true time since cycleStartTime was set is below 2^32 ms,
\* the unsigned difference millis() - waterPumpCycleStartTime equals it, also
\* when the counter has wrapped in between; so after every evaluation under a
\* deficit less than a period of true time has passed since cycleStartTime and
\* the pump is On exactly during the first 2000 ms of true time.
C22_ElapsedSurvivesWraparound ==
    sinceCycleStart.hi < Limb =>
        /\ Sub32(now, waterPumpCycleStartTime) = sinceCycleStart
        /\ (AfterEvaluation /\ Latest.humidity < 10 * humidityThreshold) =>
               /\ Lt32(sinceCycleStart, waterPumpCyclePeriod)
               /\ waterPumpState = "On" <=> Lt32(sinceCycleStart, waterPumpOnDuration)
        /\ (AfterEvaluation /\ Latest.humidity >= 10 * humidityThreshold) =>
               (sinceCycleStart = U32(0) /\ waterPumpState = "Off")

\* C22 witness: cycleStartTime was set shortly before the counter wrapped, the
\* pump was Off at the end of the previous pass, and the evaluation after the
\* wrap found a full period elapsed, restarted the cycle and turned the pump On.
C22_Witness ==
    /\ AfterEvaluation
    /\ ticks >= 2
    /\ previous.waterPumpCycleStartTime.hi = Limb - 1
    /\ previous.waterPumpState = "Off"
    /\ now.hi = 0
    /\ waterPumpState = "On"
    /\ waterPumpCycleStartTime = now
    /\ sinceCycleStart = U32(0)

====
